---- MODULE Spec2Model ----
(***************************************************************************)
(* Model of the Registrering backend's state store (stateStore.js, kept as *)
(* src/unnamed/part_000) and of the way Server/index.js drives it: one     *)
(* in-memory Document, one backing JSON file, and a promise chain that     *)
(* serialises the mutating operations.                                     *)
(*                                                                         *)
(* JavaScript values that come from outside (request payloads, the parsed  *)
(* backing file) are modelled as tagged values [t |-> type, v |-> text],   *)
(* so that the typeof / truthiness / trim tests of the normalisers are     *)
(* computed as the code computes them.  A Document held by the store is    *)
(* modelled as a record of plain strings, booleans and sequences.          *)
(***************************************************************************)
EXTENDS Integers, Sequences, FiniteSets, TLC

\* ------------------------------------------------------------ bounds

\* Mutating operations submitted over the whole run.
MaxOps == 2
\* Restarts of the server process (a fresh StateStore on the same file).
MaxRestarts == 1

\* ------------------------------------------------------ JS values

Str(s) == [t |-> "string", v |-> s]
Bool(b) == [t |-> "boolean", v |-> IF b THEN "true" ELSE "false"]
Num(s) == [t |-> "number", v |-> s]
Undefined == [t |-> "undefined", v |-> ""]
\* A key that the object does not have at all (it reads as undefined, but an
\* object spread does not copy it).
Absent == [t |-> "absent", v |-> ""]

IsString(x) == x.t = "string"

\* JavaScript truthiness: Boolean(x), !x, x || y.
Truthy(x) ==
  CASE x.t = "string" -> x.v # ""
    [] x.t = "boolean" -> x.v = "true"
    [] x.t = "number" -> x.v \notin {"0", "NaN"}
    [] OTHER -> FALSE

\* String.prototype.trim on the strings the model uses.
Trim(s) ==
  CASE s = " " -> ""
    [] s = " e1 " -> "e1"
    [] s = " Ann " -> "Ann"
    [] s = " Dev " -> "Dev"
    [] OTHER -> s

\* new Date(s).getTime() for the date strings the model uses; 0 stands for
\* NaN (an invalid date), which compares false against everything.
DateValue(s) ==
  CASE s = "2024-01-01" -> 20240101
    [] s = "2024-02-01" -> 20240201
    [] OTHER -> 0

\* new Date(from) > new Date(to)
DateAfter(from, to) ==
  /\ DateValue(from) # 0
  /\ DateValue(to) # 0
  /\ DateValue(from) > DateValue(to)

\* crypto.randomUUID(): the k-th identifier drawn in the run.  Identifiers
\* drawn at different times are different.
randomUUID(k) == "uuid-" \o ToString(k)

\* ------------------------------------------------- raw (tagged) objects

RawEmployee(id, name, department, role, photo, isCheckedIn) ==
  [t |-> "object", id |-> id, name |-> name, department |-> department,
   role |-> role, photo |-> photo, isCheckedIn |-> isCheckedIn]

\* A list entry that is not an object (null in the JSON file).
NullEmployee ==
  [t |-> "null", id |-> Absent, name |-> Absent, department |-> Absent,
   role |-> Absent, photo |-> Absent, isCheckedIn |-> Absent]

RawAbsence(id, employeeId, from, to, reason) ==
  [t |-> "object", id |-> id, employeeId |-> employeeId, from |-> from,
   to |-> to, reason |-> reason]

NullAbsence ==
  [t |-> "null", id |-> Absent, employeeId |-> Absent, from |-> Absent,
   to |-> Absent, reason |-> Absent]

RawList(items) == [t |-> "array", items |-> items]
NoList == [t |-> "undefined", items |-> <<>>]

RawBranding(logo) == [t |-> "object", logo |-> logo]
NoBranding == [t |-> "undefined", logo |-> Absent]

RawDocument(branding, employees, absences) ==
  [t |-> "object", branding |-> branding, employees |-> employees,
   absences |-> absences]

\* A parsed file whose top-level value is not an object (null, a number).
NullDocument ==
  [t |-> "null", branding |-> NoBranding, employees |-> NoList,
   absences |-> NoList]

\* ------------------------------------------------------ DEFAULT_STATE

Employee(id, name, department, role, photo, isCheckedIn) ==
  [id |-> id, name |-> name, department |-> department, role |-> role,
   photo |-> photo, isCheckedIn |-> isCheckedIn]

DEFAULT_STATE ==
  [branding |-> [logo |-> ""],
   employees |-> <<
     Employee("amalie-korvig", "Amalie Korvig", "Administration", "Receptionist", "", TRUE),
     Employee("jonas-lindholm", "Jonas Lindholm", "Administration", "HR-partner", "", FALSE),
     Employee("freja-holm", "Freja Holm", "Design", "Lead Designer", "", TRUE),
     Employee("mathias-hagen", "Mathias Hagen", "Design", "UX Designer", "", FALSE),
     Employee("henrik-nord", "Henrik Nord", "Salg", "Salgschef", "", TRUE),
     Employee("sofie-iversen", "Sofie Iversen", "Salg", "Account Manager", "", FALSE) >>,
   absences |-> << >>]

\* ------------------------------------------------------ JSON

\* JSON.stringify of a Document: every field becomes the JSON value of its
\* type.
StringifyEmployee(e) ==
  RawEmployee(Str(e.id), Str(e.name), Str(e.department), Str(e.role),
              Str(e.photo), Bool(e.isCheckedIn))

StringifyAbsence(a) ==
  RawAbsence(Str(a.id), Str(a.employeeId), Str(a.from), Str(a.to), Str(a.reason))

JSONstringify(doc) ==
  RawDocument(
    RawBranding(Str(doc.branding.logo)),
    RawList([i \in 1..Len(doc.employees) |-> StringifyEmployee(doc.employees[i])]),
    RawList([i \in 1..Len(doc.absences) |-> StringifyAbsence(doc.absences[i])]))

\* The value JSON.parse gives back for a text that JSON.stringify wrote from
\* a Document, read as a Document again.
ParseEmployee(r) ==
  Employee(r.id.v, r.name.v, r.department.v, r.role.v, r.photo.v,
           r.isCheckedIn.v = "true")

ParseAbsence(r) ==
  [id |-> r.id.v, employeeId |-> r.employeeId.v, from |-> r.from.v,
   to |-> r.to.v, reason |-> r.reason.v]

JSONparse(raw) ==
  [branding |-> [logo |-> raw.branding.logo.v],
   employees |-> [i \in 1..Len(raw.employees.items) |-> ParseEmployee(raw.employees.items[i])],
   absences |-> [i \in 1..Len(raw.absences.items) |-> ParseAbsence(raw.absences.items[i])]]

deepClone(doc) == JSONparse(JSONstringify(doc))

\* ------------------------------------------------------ normalisers
\* Each normaliser that may draw identifiers takes the number n of
\* identifiers drawn so far and returns the new number with its value.

\* normaliseBranding that forgets the stored logo.
normaliseBrandingNoLogo(raw) == [logo |-> ""]

normaliseBranding(raw) ==
  IF raw.t # "object"
  THEN [logo |-> ""]
  ELSE [logo |-> IF IsString(raw.logo) THEN raw.logo.v ELSE ""]

normaliseEmployee(employee, n) ==
  IF employee.t # "object"
  THEN [value |-> Employee(randomUUID(n + 1), "Ukendt medarbejder", "Øvrige", "", "", FALSE),
        uuid |-> n + 1]
  ELSE
    LET name == IF IsString(employee.name) /\ Trim(employee.name.v) # ""
                THEN Trim(employee.name.v) ELSE "Ukendt medarbejder"
        department == IF IsString(employee.department) /\ Trim(employee.department.v) # ""
                      THEN Trim(employee.department.v) ELSE "Øvrige"
        role == IF IsString(employee.role) THEN Trim(employee.role.v) ELSE ""
        photo == IF IsString(employee.photo) THEN Trim(employee.photo.v) ELSE ""
        hasId == IsString(employee.id) /\ Trim(employee.id.v) # ""
        id == IF hasId THEN Trim(employee.id.v) ELSE randomUUID(n + 1)
    IN [value |-> Employee(id, name, department, role, photo, Truthy(employee.isCheckedIn)),
        uuid |-> IF hasId THEN n ELSE n + 1]

\* normaliseEmployeeList without the while loop: the candidate is kept.
FreshCandidateNone(candidate, taken, n) == [value |-> candidate, uuid |-> n]

\* while (taken.has(candidate)) candidate = crypto.randomUUID()
RECURSIVE FreshCandidate(_, _, _)
FreshCandidate(candidate, taken, n) ==
  IF candidate \in taken
  THEN FreshCandidate(randomUUID(n + 1), taken, n + 1)
  ELSE [value |-> candidate, uuid |-> n]

\* One turn of the employees.map callback of normaliseEmployeeList: `acc`
\* holds the employees normalised so far, the set `taken` and the number of
\* identifiers drawn.
EmployeeListStep(employee, acc) ==
  LET normalised == normaliseEmployee(employee, acc.uuid)
      first == IF normalised.value.id # ""
               THEN [value |-> normalised.value.id, uuid |-> normalised.uuid]
               ELSE [value |-> randomUUID(normalised.uuid + 1), uuid |-> normalised.uuid + 1]
      candidate == FreshCandidate(first.value, acc.taken, first.uuid)
  IN [value |-> Append(acc.value, [normalised.value EXCEPT !.id = candidate.value]),
      taken |-> acc.taken \cup {candidate.value},
      uuid |-> candidate.uuid]

\* The entries from index i on, in order.  (Each turn's result is bound as a
\* value before the next turn reads it.)
RECURSIVE EmployeeListFrom(_, _, _)
EmployeeListFrom(employees, i, acc) ==
  IF i > Len(employees)
  THEN acc
  ELSE CHOOSE result \in {EmployeeListFrom(employees, i + 1, next) :
                            next \in {EmployeeListStep(employees[i], acc)}} : TRUE

normaliseEmployeeList(employees, n) ==
  CHOOSE result \in {[value |-> final.value, uuid |-> final.uuid] :
                       final \in {EmployeeListFrom(employees, 1,
                                    [value |-> <<>>, taken |-> {}, uuid |-> n])}} : TRUE

\* normaliseAbsence(absence, validIds = null): `checkIds` says whether a set of
\* valid ids was passed; ok = FALSE stands for the null it returns.
NoAbsence == [id |-> "", employeeId |-> "", from |-> "", to |-> "", reason |-> ""]

normaliseAbsence(absence, checkIds, validIds, n) ==
  LET employeeId == IF IsString(absence.employeeId) THEN absence.employeeId.v ELSE ""
      from == IF IsString(absence.from) THEN absence.from.v ELSE ""
      to == IF IsString(absence.to) THEN absence.to.v ELSE ""
      reason == IF IsString(absence.reason) THEN absence.reason.v ELSE "other"
      hasId == IsString(absence.id) /\ Trim(absence.id.v) # ""
      id == IF hasId THEN Trim(absence.id.v) ELSE randomUUID(n + 1)
      null == [ok |-> FALSE, value |-> NoAbsence, uuid |-> n]
  IN CASE absence.t # "object" -> null
       [] employeeId = "" \/ (checkIds /\ employeeId \notin validIds) -> null
       [] from = "" \/ to = "" -> null
       [] DateAfter(from, to) -> null
       [] OTHER ->
            [ok |-> TRUE,
             value |-> [id |-> id, employeeId |-> employeeId, from |-> from,
                        to |-> to, reason |-> reason],
             uuid |-> IF hasId THEN n ELSE n + 1]

\* One turn of absences.map(...).filter(Boolean).
AbsenceListStep(absence, validIds, acc) ==
  LET normalised == normaliseAbsence(absence, TRUE, validIds, acc.uuid)
  IN [value |-> IF normalised.ok THEN Append(acc.value, normalised.value) ELSE acc.value,
      uuid |-> normalised.uuid]

RECURSIVE AbsenceListFrom(_, _, _, _)
AbsenceListFrom(absences, i, validIds, acc) ==
  IF i > Len(absences)
  THEN acc
  ELSE CHOOSE result \in {AbsenceListFrom(absences, i + 1, validIds, next) :
                            next \in {AbsenceListStep(absences[i], validIds, acc)}} : TRUE

normaliseAbsenceList(absences, validIds, n) ==
  CHOOSE result \in {AbsenceListFrom(absences, 1, validIds, start) :
                       start \in {[value |-> <<>>, uuid |-> n]}} : TRUE

EmployeeIds(employees) == {employees[i].id : i \in 1..Len(employees)}

\* normaliseState with its employees already normalised.
StateWithEmployees(raw, employees) ==
  LET validIds == EmployeeIds(employees.value)
      absences == IF raw.absences.t = "array"
                  THEN normaliseAbsenceList(raw.absences.items, validIds, employees.uuid)
                  ELSE [value |-> <<>>, uuid |-> employees.uuid]
  IN [value |-> [branding |-> normaliseBranding(raw.branding),
                 employees |-> employees.value,
                 absences |-> absences.value],
      uuid |-> absences.uuid]

normaliseState(raw, n) ==
  IF raw.t # "object"
  THEN [value |-> deepClone(DEFAULT_STATE), uuid |-> n]
  ELSE CHOOSE result \in
         {StateWithEmployees(raw, employees) :
            employees \in {IF raw.employees.t = "array" /\ Len(raw.employees.items) # 0
                           THEN normaliseEmployeeList(raw.employees.items, n)
                           ELSE [value |-> deepClone(DEFAULT_STATE).employees, uuid |-> n]}} : TRUE

\* ------------------------------------------------------ operations
\* The synchronous part of each queued task, from its first read of
\* this.state to its call of persist(): applied to the Document `doc` with n
\* identifiers drawn so far.  error = "" when the task goes on to persist;
\* `state` is this.state when the task throws or awaits.

Proceeds(doc, n) == [error |-> "", state |-> doc, uuid |-> n]
Throws(message, doc, n) == [error |-> message, state |-> doc, uuid |-> n]

setBrandingLogo(doc, logoPath, n) ==
  Proceeds([doc EXCEPT !.branding = [logo |-> logoPath]], n)

removeBrandingLogo(doc, n) ==
  Proceeds([doc EXCEPT !.branding = [logo |-> ""]], n)

\* The `employee` of addEmployee: normaliseEmployee({ ...payload, id: payload.id
\* || crypto.randomUUID(), isCheckedIn: Boolean(payload.isCheckedIn) }); it is
\* also the value the task returns.
NewEmployee(payload, n) ==
  LET drawn == ~Truthy(payload.id)
      n1 == IF drawn THEN n + 1 ELSE n
      id == IF drawn THEN Str(randomUUID(n + 1)) ELSE payload.id
  IN normaliseEmployee(
       [payload EXCEPT !.id = id,
                       !.isCheckedIn = Bool(Truthy(payload.isCheckedIn))],
       n1)

\* addEmployee that puts the new employee first.
addEmployeeFirst(doc, payload, n) ==
  LET employee == NewEmployee(payload, n)
  IN IF employee.value.name = "" \/ employee.value.role = ""
     THEN Throws("Navn og titel er påkrævet", doc, employee.uuid)
     ELSE Proceeds([doc EXCEPT !.employees = <<employee.value>> \o @], employee.uuid)

addEmployee(doc, payload, n) ==
  LET employee == NewEmployee(payload, n)
  IN IF employee.value.name = "" \/ employee.value.role = ""
     THEN Throws("Navn og titel er påkrævet", doc, employee.uuid)
     ELSE Proceeds([doc EXCEPT !.employees = Append(@, employee.value)], employee.uuid)

\* The merge with the spread last: the keys of updates win, id included.
MergeEmployeeUpdatesLast(employee, updates) ==
  LET field(own, new) == IF new.t = "absent" THEN own ELSE new
  IN RawEmployee(field(Str(employee.id), updates.id),
                 field(Str(employee.name), updates.name),
                 field(Str(employee.department), updates.department),
                 field(Str(employee.role), updates.role),
                 field(Str(employee.photo), updates.photo),
                 field(Bool(employee.isCheckedIn), updates.isCheckedIn))

\* { ...employee, ...updates, id: employee.id, isCheckedIn: ... }
MergeEmployee(employee, updates) ==
  LET field(own, new) == IF new.t = "absent" THEN Str(own) ELSE new
  IN RawEmployee(Str(employee.id),
                 field(employee.name, updates.name),
                 field(employee.department, updates.department),
                 field(employee.role, updates.role),
                 field(employee.photo, updates.photo),
                 IF updates.isCheckedIn.t = "boolean"
                 THEN updates.isCheckedIn ELSE Bool(employee.isCheckedIn))

updateEmployee(doc, id, updates, n) ==
  LET found == \E i \in 1..Len(doc.employees) : doc.employees[i].id = id
      mapped == [i \in 1..Len(doc.employees) |->
                   IF doc.employees[i].id # id
                   THEN doc.employees[i]
                   ELSE normaliseEmployee(MergeEmployee(doc.employees[i], updates), n).value]
      next == [doc EXCEPT !.employees = mapped]
  IN IF ~found
     THEN Throws("Medarbejder ikke fundet", next, n)
     ELSE Proceeds(next, n)

\* removeEmployee that leaves the absences alone.
removeEmployeeKeepAbsences(doc, id, n) ==
  IF \A i \in 1..Len(doc.employees) : doc.employees[i].id # id
  THEN Throws("Medarbejder ikke fundet", doc, n)
  ELSE Proceeds([doc EXCEPT !.employees = SelectSeq(@, LAMBDA e : e.id # id)], n)

removeEmployee(doc, id, n) ==
  LET found == \E i \in 1..Len(doc.employees) : doc.employees[i].id = id
      remainingEmployees == SelectSeq(doc.employees, LAMBDA e : e.id # id)
  IN IF ~found
     THEN Throws("Medarbejder ikke fundet", doc, n)
     ELSE Proceeds([doc EXCEPT !.employees = remainingEmployees,
                               !.absences = SelectSeq(@, LAMBDA a : a.employeeId # id)], n)

\* addAbsence that keeps the employee's earlier absences.
addAbsenceKeepPrior(doc, payload, n) ==
  LET drawn == ~Truthy(payload.id)
      n1 == IF drawn THEN n + 1 ELSE n
      id == IF drawn THEN Str(randomUUID(n + 1)) ELSE payload.id
      absence == normaliseAbsence(
                   RawAbsence(id, payload.employeeId, payload.from, payload.to, payload.reason),
                   FALSE, {}, n1)
  IN IF ~absence.ok
     THEN Throws("Ugyldige fraværsoplysninger", doc, absence.uuid)
     ELSE Proceeds([doc EXCEPT !.absences = Append(@, absence.value)], absence.uuid)

addAbsence(doc, payload, n) ==
  LET drawn == ~Truthy(payload.id)
      n1 == IF drawn THEN n + 1 ELSE n
      id == IF drawn THEN Str(randomUUID(n + 1)) ELSE payload.id
      absence == normaliseAbsence(
                   RawAbsence(id, payload.employeeId, payload.from, payload.to, payload.reason),
                   FALSE, {}, n1)
      filtered == SelectSeq(doc.absences, LAMBDA entry : entry.employeeId # absence.value.employeeId)
  IN IF ~absence.ok
     THEN Throws("Ugyldige fraværsoplysninger", doc, absence.uuid)
     ELSE Proceeds([doc EXCEPT !.absences = Append(filtered, absence.value)], absence.uuid)

\* removeAbsence without the test of `removed`.
removeAbsenceNoCheck(doc, id, n) ==
  Proceeds([doc EXCEPT !.absences = SelectSeq(doc.absences, LAMBDA a : a.id # id)], n)

removeAbsence(doc, id, n) ==
  LET found == \E i \in 1..Len(doc.absences) : doc.absences[i].id = id
      absences == SelectSeq(doc.absences, LAMBDA a : a.id # id)
  IN IF ~found
     THEN Throws("Fravær ikke fundet", doc, n)
     ELSE Proceeds([doc EXCEPT !.absences = absences], n)

\* A submitted operation: the method and its arguments (the ones the method
\* does not take are left at their empty values).
Operation(method, id, logoPath, employee, absence) ==
  [method |-> method, id |-> id, logoPath |-> logoPath, employee |-> employee,
   absence |-> absence]

\* task(): the body the method hands to enqueue.
RunTask(op, doc, n) ==
  CASE op.method = "setBrandingLogo" -> setBrandingLogo(doc, op.logoPath, n)
    [] op.method = "removeBrandingLogo" -> removeBrandingLogo(doc, n)
    [] op.method = "addEmployee" -> addEmployee(doc, op.employee, n)
    [] op.method = "updateEmployee" -> updateEmployee(doc, op.id, op.employee, n)
    [] op.method = "removeEmployee" -> removeEmployee(doc, op.id, n)
    [] op.method = "addAbsence" -> addAbsence(doc, op.absence, n)
    [] op.method = "removeAbsence" -> removeAbsence(doc, op.id, n)



\* ------------------------------------------------------ inputs

Payload(id, name, role, isCheckedIn) ==
  RawEmployee(id, name, Absent, role, Absent, isCheckedIn)

NoPayload == Payload(Absent, Absent, Absent, Absent)

EmployeePayloads ==
  { Payload(Absent, Str("Ann"), Str("Dev"), Absent),
    Payload(Str("e1"), Str(" Ann "), Str("Dev"), Bool(TRUE)),
    Payload(Absent, Str(" "), Str("Dev"), Absent),
    Payload(Absent, Str("Ann"), Str(" "), Absent) }

\* The last one carries another id, a department key whose value is undefined
\* (as PUT /api/employees/:id builds it when the form has no department) and
\* an isCheckedIn that is not a boolean.
EmployeeUpdates ==
  { Payload(Absent, Absent, Absent, Bool(FALSE)),
    Payload(Absent, Absent, Str(""), Absent),
    RawEmployee(Str("e2"), Str("Bo"), Undefined, Absent, Absent, Str("yes")) }

EmployeeTargets == {"e1"}

AbsencePayloads ==
  { RawAbsence(Str("a1"), Str("e1"), Str("2024-01-01"), Str("2024-02-01"), Str("sick")),
    RawAbsence(Absent, Str("e1"), Str("2024-01-01"), Str("2024-02-01"), Absent),
    RawAbsence(Absent, Str("e1"), Str("2024-02-01"), Str("2024-01-01"), Absent),
    RawAbsence(Absent, Str("amalie-korvig"), Str("2024-01-01"), Str("2024-01-01"), Str("vacation")) }

AbsenceTargets == {"a1"}

LogoPaths == {"/uploads/branding/logo-1.png"}

Operations ==
  {Operation("setBrandingLogo", "", l, NoPayload, NullAbsence) : l \in LogoPaths}
  \cup {Operation("removeBrandingLogo", "", "", NoPayload, NullAbsence)}
  \cup {Operation("addEmployee", "", "", p, NullAbsence) : p \in EmployeePayloads}
  \cup {Operation("updateEmployee", id, "", u, NullAbsence) :
          id \in EmployeeTargets, u \in EmployeeUpdates}
  \cup {Operation("removeEmployee", id, "", NoPayload, NullAbsence) : id \in EmployeeTargets}
  \cup {Operation("addAbsence", "", "", NoPayload, a) : a \in AbsencePayloads}
  \cup {Operation("removeAbsence", id, "", NoPayload, NullAbsence) : id \in AbsenceTargets}

\* The backing file: absent, unparseable, or a JSON text (its parsed value).
FileAbsent == [kind |-> "absent", value |-> NullDocument]
FileGarbage == [kind |-> "garbage", value |-> NullDocument]
FileJSON(raw) == [kind |-> "json", value |-> raw]

InitialFiles ==
  { FileAbsent,
    FileGarbage,
    FileJSON(RawDocument(
      RawBranding(Str("")),
      RawList(<< RawEmployee(Str("e1"), Str("Ann"), Str("Ops"), Str("Dev"), Str(""), Bool(FALSE)) >>),
      RawList(<< RawAbsence(Str("a1"), Str("e1"), Str("2024-01-01"), Str("2024-02-01"), Str("sick")) >>))) }


\* Backing files as another program, a hand edit or an older version may have
\* left them: employees that share an id (also up to surrounding blanks),
\* entries without id, entries that are not objects, several absences of one
\* employee, absences of nobody.
LoadFiles ==
  { FileJSON(RawDocument(
      RawBranding(Str("/uploads/branding/logo-1.png")),
      RawList(<< RawEmployee(Str("e1"), Str("Ann"), Str("Ops"), Str("Dev"), Str(""), Bool(FALSE)),
                 RawEmployee(Str(" e1 "), Str("Bo"), Absent, Str("Dev"), Absent, Bool(TRUE)),
                 RawEmployee(Str("e1"), Str("Cy"), Str("Ops"), Str(" Dev "), Str(""), Absent) >>),
      RawList(<< RawAbsence(Str("a1"), Str("e1"), Str("2024-01-01"), Str("2024-02-01"), Str("sick")),
                 RawAbsence(Str("a2"), Str("e1"), Str("2024-01-01"), Str("2024-01-01"), Str("vacation")) >>))),
    FileJSON(RawDocument(
      NoBranding,
      RawList(<< RawEmployee(Absent, Str("Ann"), Str("Ops"), Str("Dev"), Str(""), Bool(FALSE)),
                 NullEmployee,
                 RawEmployee(Str("e1"), Str(" Ann "), Str("Ops"), Str("Dev"), Str(""), Bool(FALSE)),
                 RawEmployee(Str("e1"), Absent, Absent, Absent, Absent, Absent) >>),
      RawList(<< RawAbsence(Absent, Str("e1"), Str("2024-01-01"), Str("2024-02-01"), Absent),
                 RawAbsence(Str("a3"), Str("e9"), Str("2024-01-01"), Str("2024-02-01"), Str("sick")),
                 NullAbsence >>))) }

\* ------------------------------------------------------ state

VARIABLES
  state,      \* this.state: the in-memory Document
  file,       \* the backing file
  phase,      \* where start() / init() stands: "new" (readFile pending),
              \* "initMkdir", "initWrite", "ready" (listening), "exited"
  pending,    \* the data of init's pending fs.writeFile
  tasks,      \* the tasks handed to enqueue by this process, in submission order
  uuidCount,  \* identifiers drawn from crypto.randomUUID so far
  opCount,    \* operations submitted so far (bounded by MaxOps)
  restarts,   \* restarts so far (bounded by MaxRestarts)
  serial,     \* history: the operations submitted since init, applied one at a
              \* time in submission order to the Document init produced
  persisted,  \* history: the Document of the last successful write, while the
              \* file still holds it
  loaded,     \* history: the Document the file held when init read it
  overlap     \* history: this process was handed an operation while an
              \* earlier one had not settled

vars == <<state, file, phase, pending, tasks, uuidCount, opCount, restarts,
          serial, persisted, loaded, overlap>>

EmptyDocument == [branding |-> [logo |-> ""], employees |-> <<>>, absences |-> <<>>]
Unknown == [known |-> FALSE, doc |-> EmptyDocument]
Known(doc) == [known |-> TRUE, doc |-> doc]

Task(op) ==
  [op |-> op, pc |-> "queued", error |-> "", thrownBy |-> 0, ran |-> FALSE,
   data |-> NullDocument, before |-> EmptyDocument]

NoOperation == Operation("", "", "", NoPayload, NullAbsence)

\* A settled task: what the model keeps of it is the call and how it settled.
Resolved(task) ==
  [task EXCEPT !.pc = "resolved", !.data = NullDocument, !.before = EmptyDocument]
Rejected(task, message, thrower) ==
  [task EXCEPT !.pc = "rejected", !.data = NullDocument,
               !.error = message, !.thrownBy = thrower]

Settled(task) == task.pc \in {"resolved", "rejected"}
InFlight(task) == task.pc \in {"mkdir", "write"}

\* enqueue without the chain: the task is called at once.
QueueOutcomeNoWait(ts, i) == "fulfilled"

\* enqueue without .catch(() => undefined): a rejected run rejects the chain.
QueueOutcomeNoCatch(ts, i) ==
  CASE i = 0 -> "fulfilled"
    [] ts[i].pc = "resolved" -> "fulfilled"
    [] ts[i].pc = "rejected" -> "rejected"
    [] OTHER -> "pending"

\* enqueue with a chain that only a resolved run moves on.
QueueOutcomeStuck(ts, i) ==
  IF i = 0 \/ ts[i].pc = "resolved" THEN "fulfilled" ELSE "pending"

\* The state of this.queue as enqueue left it after the i-th task:
\* run.then(() => undefined).catch(() => undefined), where run settles with
\* the task; before the first task it is Promise.resolve().
QueueOutcome(ts, i) ==
  IF i = 0 \/ Settled(ts[i]) THEN "fulfilled" ELSE "pending"

\* persist() writing the Document without its branding.
persistDataNoBranding(doc) == JSONstringify([doc EXCEPT !.branding = [logo |-> ""]])

\* JSON.stringify(this.state, null, 2), the data persist() hands to writeFile.
persistData(doc) == JSONstringify(doc)

\* constructor(filePath), then start() calls init(): readFile is pending.
Init ==
  /\ state = deepClone(DEFAULT_STATE)
  /\ file \in InitialFiles
  /\ phase = "new"
  /\ pending = NullDocument
  /\ tasks = <<>>
  /\ uuidCount = 0
  /\ opCount = 0
  /\ restarts = 0
  /\ serial = [doc |-> deepClone(DEFAULT_STATE), uuid |-> 0]
  /\ persisted = Unknown
  /\ loaded = Unknown
  /\ overlap = FALSE

\* The same construction on a backing file of LoadFiles.
InitLoad ==
  /\ state = deepClone(DEFAULT_STATE)
  /\ file \in LoadFiles
  /\ phase = "new"
  /\ pending = NullDocument
  /\ tasks = <<>>
  /\ uuidCount = 0
  /\ opCount = 0
  /\ restarts = 0
  /\ serial = [doc |-> deepClone(DEFAULT_STATE), uuid |-> 0]
  /\ persisted = Unknown
  /\ loaded = Unknown
  /\ overlap = FALSE

\* init(): readFile returns.  A parseable file is normalised into this.state;
\* otherwise (ENOENT, unparseable) the defaults are taken and persist() starts.
InitRead ==
  /\ phase = "new"
  /\ \/ /\ file.kind = "json"
        /\ \E normalised \in {normaliseState(file.value, uuidCount)} :
              /\ state' = normalised.value
              /\ uuidCount' = normalised.uuid
              /\ serial' = [doc |-> normalised.value, uuid |-> normalised.uuid]
        /\ phase' = "ready"
        /\ loaded' = persisted
     \/ /\ file.kind # "json"
        /\ state' = deepClone(DEFAULT_STATE)
        /\ phase' = "initMkdir"
        /\ UNCHANGED <<uuidCount, serial, loaded>>
  /\ UNCHANGED <<file, pending, tasks, opCount, restarts, persisted, overlap>>

\* init()'s persist(): fs.mkdir returns; on success writeFile is called with
\* the Document as it is now.  A failure rejects init() and start() exits.
InitMkdirDone ==
  /\ phase = "initMkdir"
  /\ \/ /\ pending' = persistData(state)
        /\ phase' = "initWrite"
     \/ /\ phase' = "exited"
        /\ UNCHANGED pending
  /\ UNCHANGED <<state, file, tasks, uuidCount, opCount, restarts, serial, persisted, loaded, overlap>>

\* init()'s persist(): fs.writeFile returns.  A failed write leaves the file
\* as it was or leaves a partial text.
InitWriteDone ==
  /\ phase = "initWrite"
  /\ \/ /\ file' = FileJSON(pending)
        /\ persisted' = Known(JSONparse(pending))
        /\ phase' = "ready"
        /\ serial' = [doc |-> state, uuid |-> uuidCount]
     \/ /\ \/ UNCHANGED <<file, persisted>>
           \/ file' = FileGarbage /\ persisted' = Unknown
        /\ phase' = "exited"
        /\ UNCHANGED serial
  /\ pending' = NullDocument
  /\ UNCHANGED <<state, tasks, uuidCount, opCount, restarts, loaded, overlap>>

\* A mutating method is called: enqueue(task) chains the task and returns.
Submit(op) ==
  /\ phase = "ready"
  /\ opCount < MaxOps
  /\ opCount' = opCount + 1
  /\ tasks' = Append(tasks, Task(op))
  /\ overlap' = (overlap \/ \E j \in 1..Len(tasks) : ~Settled(tasks[j]))
  /\ serial' = LET r == RunTask(op, serial.doc, serial.uuid)
               IN [doc |-> r.state, uuid |-> r.uuid]
  /\ UNCHANGED <<state, file, phase, pending, uuidCount, restarts, persisted, loaded>>

\* this.queue.then(() => task()): once the chain before the i-th task has
\* settled, the task runs up to its first await (or throws); were the chain
\* rejected, the task would be skipped and its promise rejected with the
\* chain's error.
Start(i) ==
  /\ phase = "ready"
  /\ tasks[i].pc = "queued"
  /\ QueueOutcome(tasks, i - 1) # "pending"
  /\ IF QueueOutcome(tasks, i - 1) = "rejected"
     THEN /\ tasks' = [tasks EXCEPT ![i] = Rejected(@, tasks[i - 1].error, tasks[i - 1].thrownBy)]
          /\ UNCHANGED <<state, uuidCount>>
     ELSE LET r == RunTask(tasks[i].op, state, uuidCount)
          IN /\ state' = r.state
             /\ uuidCount' = r.uuid
             /\ tasks' = [tasks EXCEPT ![i] =
                            IF r.error = ""
                            THEN [@ EXCEPT !.pc = "mkdir", !.ran = TRUE, !.before = state]
                            ELSE Rejected([@ EXCEPT !.ran = TRUE], r.error, i)]
  /\ UNCHANGED <<file, phase, pending, opCount, restarts, serial, persisted, loaded, overlap>>

\* persist() of the i-th task: fs.mkdir returns; on success writeFile is
\* called with JSON.stringify(this.state) as this.state is now.
MkdirDone(i) ==
  /\ tasks[i].pc = "mkdir"
  /\ \/ /\ tasks' = [tasks EXCEPT ![i] = [@ EXCEPT !.pc = "write", !.data = persistData(state)]]
     \/ /\ tasks' = [tasks EXCEPT ![i] = Rejected(@, "EACCES", i)]
  /\ UNCHANGED <<state, file, phase, pending, uuidCount, opCount, restarts, serial, persisted, loaded, overlap>>

\* persist() of the i-th task: fs.writeFile returns; on success the task
\* returns its result and its promise resolves.
WriteDone(i) ==
  /\ tasks[i].pc = "write"
  /\ \/ /\ file' = FileJSON(tasks[i].data)
        /\ persisted' = Known(JSONparse(tasks[i].data))
        /\ tasks' = [tasks EXCEPT ![i] = Resolved(@)]
     \/ /\ \/ UNCHANGED <<file, persisted>>
           \/ file' = FileGarbage /\ persisted' = Unknown
        /\ tasks' = [tasks EXCEPT ![i] = Rejected(@, "ENOSPC", i)]
  /\ UNCHANGED <<state, phase, pending, uuidCount, opCount, restarts, serial, loaded, overlap>>

\* The server process is started again on the same file once it is idle (or
\* has exited): a new StateStore, and start() calls init().
Restart ==
  /\ phase \in {"ready", "exited"}
  /\ \A i \in 1..Len(tasks) : Settled(tasks[i])
  /\ restarts < MaxRestarts
  /\ restarts' = restarts + 1
  /\ state' = deepClone(DEFAULT_STATE)
  /\ phase' = "new"
  /\ tasks' = <<>>
  /\ serial' = [doc |-> deepClone(DEFAULT_STATE), uuid |-> uuidCount]
  /\ loaded' = Unknown
  /\ overlap' = FALSE
  /\ UNCHANGED <<file, pending, uuidCount, opCount, persisted>>

Next ==
  \/ InitRead
  \/ InitMkdirDone
  \/ InitWriteDone
  \/ \E op \in Operations : Submit(op)
  \/ \E i \in 1..Len(tasks) : Start(i)
  \/ \E i \in 1..Len(tasks) : MkdirDone(i)
  \/ \E i \in 1..Len(tasks) : WriteDone(i)
  \/ Restart

Spec == Init /\ [][Next]_vars

\* The store started on a backing file of LoadFiles.
SpecLoad == InitLoad /\ [][Next]_vars

\* Every pending step of the queue is eventually taken: the event loop runs
\* every ready continuation, and each fs call of persist() returns.
Fairness ==
  /\ WF_vars(\E i \in 1..Len(tasks) : Start(i))
  /\ WF_vars(\E i \in 1..Len(tasks) : MkdirDone(i))
  /\ WF_vars(\E i \in 1..Len(tasks) : WriteDone(i))

FairSpec == Spec /\ Fairness

\* getState(): a deep copy of this.state.
getState == deepClone(state)

\* The errors of fs.mkdir and fs.writeFile.
IsPersistError(message) == message \in {"EACCES", "ENOSPC"}

TaskIds == 1..Len(tasks)
AllSettled == \A i \in TaskIds : Settled(tasks[i])

\* ------------------------------------------------------ claims

\* C1: once all operations submitted since init have settled, and no
\* persistence write of theirs failed, the Document held by the store is the
\* one obtained by applying the same operations one at a time in submission
\* order to the Document init produced.
C1_Serializable ==
  (/\ phase = "ready"
   /\ AllSettled
   /\ \A i \in TaskIds : ~IsPersistError(tasks[i].error))
  => state = serial.doc

\* Two operations, the second submitted while the first had not settled,
\* have both settled after changing the Document.
C1_Witness ==
  /\ phase = "ready"
  /\ Len(tasks) = 2
  /\ \A i \in TaskIds : tasks[i].pc = "resolved"
  /\ overlap
  /\ state = serial.doc
  /\ state.employees # deepClone(DEFAULT_STATE).employees
  /\ state.absences # <<>>

\* C2: while a task is in flight (from its start to the end of its persist),
\* every task submitted before it has settled and no task submitted after it
\* has started: at most one task is in flight.
C2_OneInFlight ==
  \A i \in TaskIds :
    InFlight(tasks[i]) =>
      \A j \in TaskIds :
        /\ j < i => Settled(tasks[j])
        /\ j > i => tasks[j].pc = "queued"

\* A task is writing while another one, submitted meanwhile, waits.
C2_Witness ==
  \E i, j \in TaskIds :
    /\ i < j
    /\ tasks[i].pc = "write"
    /\ tasks[j].pc = "queued"

\* C3: after a task was rejected by a failed persistence step, and before a
\* later task starts, getState() returns the Document as it was before the
\* task started.
C3_FailedPersistReverts ==
  \A i \in TaskIds :
    (/\ tasks[i].pc = "rejected"
     /\ IsPersistError(tasks[i].error)
     /\ \A j \in TaskIds : j > i => tasks[j].pc = "queued")
    => getState = tasks[i].before

\* C4: while a task is in flight, getState() returns the Document of the
\* last successful write.
C4_ReadsSeeCommitted ==
  (/\ phase = "ready"
   /\ persisted.known
   /\ \E i \in TaskIds : InFlight(tasks[i]))
  => getState = persisted.doc

\* C5: in the step in which a task's promise resolves, the backing file
\* becomes the JSON text of the in-memory Document.
C5_DurableBeforeResolve ==
  [][\A i \in TaskIds :
       (/\ i <= Len(tasks')
        /\ tasks[i].pc # "resolved"
        /\ tasks'[i].pc = "resolved")
       => file' = FileJSON(JSONstringify(state'))]_vars

\* A task that set the logo has resolved and the file holds the Document.
C5_Witness ==
  /\ \E i \in TaskIds : tasks[i].pc = "resolved"
  /\ AllSettled
  /\ state.branding.logo # ""
  /\ file = FileJSON(JSONstringify(state))

\* C6: every settled task has run its own body, a rejected one was rejected
\* by an error its own body or its own persist raised, and the chain a
\* settled task leaves behind is fulfilled whatever its outcome.
C6_FailureIsOwn ==
  \A i \in TaskIds :
    Settled(tasks[i]) =>
      /\ tasks[i].ran
      /\ tasks[i].pc = "rejected" => tasks[i].thrownBy = i
      /\ QueueOutcome(tasks, i) = "fulfilled"

\* A task failed and a task submitted behind it, before it settled, resolved.
C6_Witness ==
  /\ Len(tasks) >= 2
  /\ tasks[1].pc = "rejected"
  /\ tasks[2].pc = "resolved"
  /\ overlap

\* C7: under fair scheduling every submitted task eventually settles.
C7_EventuallySettles ==
  \A i \in 1..MaxOps :
    (Len(tasks) >= i) ~> (Len(tasks) >= i /\ Settled(tasks[i]))

\* A task submitted behind a failed one has settled.
C7_Witness ==
  /\ Len(tasks) >= 2
  /\ tasks[1].pc = "rejected"
  /\ overlap
  /\ Settled(tasks[2])
  /\ tasks[2].ran

\* C8: the employeeId of every absence is the id of an employee.
C8_AbsencesReferToEmployees ==
  phase = "ready" =>
    \A i \in 1..Len(state.absences) :
      state.absences[i].employeeId \in EmployeeIds(state.employees)

\* C9: no two employees have the same id.
C9_UniqueEmployeeIds ==
  phase = "ready" =>
    \A i, j \in 1..Len(state.employees) :
      state.employees[i].id = state.employees[j].id => i = j

\* The Data Model's invariants of a Document.
ValidDocument(doc) ==
  /\ \A i, j \in 1..Len(doc.employees) :
       doc.employees[i].id = doc.employees[j].id => i = j
  /\ \A i \in 1..Len(doc.employees) : doc.employees[i].name # ""
  /\ \A i \in 1..Len(doc.absences) :
       /\ doc.absences[i].employeeId \in EmployeeIds(doc.employees)
       /\ ~DateAfter(doc.absences[i].from, doc.absences[i].to)
  /\ \A i, j \in 1..Len(doc.absences) :
       doc.absences[i].employeeId = doc.absences[j].employeeId => i = j

\* init has read a file that holds the last written Document, and no task
\* has run since.
JustLoaded ==
  /\ phase = "ready"
  /\ loaded.known
  /\ \A i \in TaskIds : tasks[i].pc = "queued"

\* C10 as claimed: a fresh store initialised from the file that holds a valid
\* Document D holds D.
C10_RoundTripAnyValid ==
  (JustLoaded /\ ValidDocument(loaded.doc)) => state = loaded.doc

\* C10 as amended: a fresh store initialised from the file that holds a valid
\* Document D with at least one employee holds D.
C10_RoundTrip ==
  (JustLoaded /\ ValidDocument(loaded.doc) /\ loaded.doc.employees # <<>>)
  => state = loaded.doc

\* A restarted store has loaded a Document with a logo, an added employee
\* and an absence.
C10_Witness ==
  /\ JustLoaded
  /\ restarts > 0
  /\ ValidDocument(loaded.doc)
  /\ state = loaded.doc
  /\ state.branding.logo # ""
  /\ state.absences # <<>>
  /\ state.employees # <<>>

\* ------------------------------------------------------ claims on operations

\* The step in which the i-th task of this process starts: it leaves "queued".
Starts(i) ==
  /\ tasks[i].pc = "queued"
  /\ i <= Len(tasks')
  /\ tasks'[i].pc # "queued"

\* The step in which the i-th task resolves.
Resolves(i) ==
  /\ tasks[i].pc = "write"
  /\ i <= Len(tasks')
  /\ tasks'[i].pc = "resolved"

\* An empty or blank string.
Blank(x) == IsString(x) /\ Trim(x.v) = ""
\* A string with something in it.
Filled(x) == IsString(x) /\ Trim(x.v) # ""

\* C11: addEmployee with an empty or blank name and a non-empty role, or with
\* an empty or blank role, is rejected with the validation error and leaves
\* the Document as it was.
C11_BlankNameOrRoleRejected ==
  [][\A i \in TaskIds :
       (/\ Starts(i)
        /\ tasks[i].op.method = "addEmployee"
        /\ \/ Blank(tasks[i].op.employee.name) /\ Filled(tasks[i].op.employee.role)
           \/ Blank(tasks[i].op.employee.role))
       => /\ tasks'[i].pc = "rejected"
          /\ tasks'[i].error = "Navn og titel er påkrævet"
          /\ state' = state]_vars

\* C12: addEmployee with a name and a role, no id and no isCheckedIn goes on
\* to persist with the Document changed only by one employee appended last,
\* not checked in, under an identifier drawn for it that no employee had; and
\* when it resolves, getState() holds that employee at that place.
C12_AddEmployeeAppends ==
  [][\A i \in TaskIds :
       (/\ tasks[i].op.method = "addEmployee"
        /\ Filled(tasks[i].op.employee.name)
        /\ Filled(tasks[i].op.employee.role)
        /\ tasks[i].op.employee.id = Absent
        /\ tasks[i].op.employee.isCheckedIn = Absent)
       => /\ Starts(i) =>
               LET employee == NewEmployee(tasks[i].op.employee, uuidCount).value
               IN /\ tasks'[i].pc = "mkdir"
                  /\ ~employee.isCheckedIn
                  /\ employee.id = randomUUID(uuidCount + 1)
                  /\ employee.id \notin EmployeeIds(state.employees)
                  /\ employee.name = Trim(tasks[i].op.employee.name.v)
                  /\ employee.role = Trim(tasks[i].op.employee.role.v)
                  /\ state'.employees = Append(state.employees, employee)
                  /\ state'.absences = state.absences
                  /\ state'.branding = state.branding
          /\ Resolves(i) =>
               LET earlier == tasks[i].before.employees
                   k == Len(earlier) + 1
                   now == deepClone(state').employees
               IN /\ Len(now) = k
                  /\ SubSeq(now, 1, k - 1) = earlier
                  /\ now[k].name = Trim(tasks[i].op.employee.name.v)
                  /\ now[k].role = Trim(tasks[i].op.employee.role.v)
                  /\ ~now[k].isCheckedIn
                  /\ now[k].id \in {randomUUID(m) : m \in 1..uuidCount}
                  /\ now[k].id \notin EmployeeIds(earlier)]_vars

\* An addEmployee without id has resolved behind another operation, and its
\* employee is the last one of the Document.
C12_Witness ==
  /\ Len(tasks) = 2
  /\ tasks[1].pc = "resolved"
  /\ tasks[2].pc = "resolved"
  /\ tasks[2].op.method = "addEmployee"
  /\ tasks[2].op.employee.id = Absent
  /\ Len(state.employees) >= 2
  /\ state.employees[Len(state.employees)].name = "Ann"
  /\ ~state.employees[Len(state.employees)].isCheckedIn
  /\ state.employees[Len(state.employees)].id = randomUUID(uuidCount)

AbsenceIds(absences) == {absences[i].id : i \in 1..Len(absences)}

\* The call of the i-th task names a record that the Document does not hold.
NamesNoRecord(i) ==
  \/ /\ tasks[i].op.method \in {"updateEmployee", "removeEmployee"}
     /\ tasks[i].op.id \notin EmployeeIds(state.employees)
  \/ /\ tasks[i].op.method = "removeAbsence"
     /\ tasks[i].op.id \notin AbsenceIds(state.absences)

\* C13: updateEmployee, removeEmployee and removeAbsence with an id that
\* matches no record are rejected with the not-found error as soon as they
\* start, without calling persist, and leave the in-memory Document and the
\* backing file as they were.
C13_NotFoundChangesNothing ==
  [][\A i \in TaskIds :
       (Starts(i) /\ NamesNoRecord(i))
       => /\ tasks'[i].pc = "rejected"
          /\ tasks'[i].error = IF tasks[i].op.method = "removeAbsence"
                               THEN "Fravær ikke fundet"
                               ELSE "Medarbejder ikke fundet"
          /\ tasks'[i].thrownBy = i
          /\ state' = state
          /\ deepClone(state') = deepClone(state)
          /\ file' = file]_vars

\* A removeAbsence and an employee operation were both rejected as not found,
\* and the Document and the file are still what init wrote.
C13_Witness ==
  /\ Len(tasks) = 2
  /\ tasks[1].pc = "rejected"
  /\ tasks[1].op.method = "removeAbsence"
  /\ tasks[1].error = "Fravær ikke fundet"
  /\ tasks[2].pc = "rejected"
  /\ tasks[2].op.method \in {"updateEmployee", "removeEmployee"}
  /\ tasks[2].error = "Medarbejder ikke fundet"
  /\ state = deepClone(DEFAULT_STATE)
  /\ file = FileJSON(JSONstringify(state))

\* C14: updateEmployee of an existing employee with updates that leave the
\* merged name or role empty or blank is rejected with the validation error
\* and leaves the Document as it was.
C14_UpdateRevalidates ==
  [][\A i \in TaskIds :
       (/\ Starts(i)
        /\ tasks[i].op.method = "updateEmployee"
        /\ tasks[i].op.id \in EmployeeIds(state.employees)
        /\ \/ Blank(tasks[i].op.employee.name)
           \/ Blank(tasks[i].op.employee.role))
       => /\ tasks'[i].pc = "rejected"
          /\ tasks'[i].error = "Navn og titel er påkrævet"
          /\ state' = state]_vars

\* The employeeIds of the absences of a Document.
AbsentEmployeeIds(absences) == {absences[i].employeeId : i \in 1..Len(absences)}

\* The employee `id` of the Document has absences.
HasAbsences(doc, id) ==
  /\ id \in EmployeeIds(doc.employees)
  /\ id \in AbsentEmployeeIds(doc.absences)

\* `now` is `before` without the employee `id` and without its absences.
Cascaded(before, now, id) ==
  /\ id \notin EmployeeIds(now.employees)
  /\ id \notin AbsentEmployeeIds(now.absences)
  /\ now.employees = SelectSeq(before.employees, LAMBDA e : e.id # id)
  /\ now.absences = SelectSeq(before.absences, LAMBDA a : a.employeeId # id)
  /\ now.branding = before.branding

\* C15: removeEmployee(id) of an employee that has absences goes on to
\* persist with a Document that has no employee of that id and no absence of
\* that employeeId, and that holds every other employee and every other
\* absence, unchanged and in the order they had; so does the Document that
\* getState() returns when the call resolves.
C15_RemoveEmployeeCascades ==
  [][\A i \in TaskIds :
       tasks[i].op.method = "removeEmployee" =>
         /\ (Starts(i) /\ HasAbsences(state, tasks[i].op.id))
            => /\ tasks'[i].pc = "mkdir"
               /\ Cascaded(state, state', tasks[i].op.id)
         /\ (Resolves(i) /\ HasAbsences(tasks[i].before, tasks[i].op.id))
            => Cascaded(tasks[i].before, deepClone(state'), tasks[i].op.id)]_vars

\* An employee was added and then removeEmployee('e1') resolved on the
\* Document loaded from the file that held e1 and its absence: the added
\* employee is the only one left and there is no absence.
C15_Witness ==
  /\ restarts = 0
  /\ Len(tasks) = 2
  /\ tasks[1].pc = "resolved"
  /\ tasks[1].op.method = "addEmployee"
  /\ tasks[2].pc = "resolved"
  /\ tasks[2].op.method = "removeEmployee"
  /\ Len(state.employees) = 1
  /\ state.employees[1].id = randomUUID(1)
  /\ state.absences = <<>>
  /\ file = FileJSON(JSONstringify(state))

\* The absence of the Document is the one the addAbsence payload asked for.
IsAbsenceOf(absence, payload) ==
  /\ absence.employeeId = payload.employeeId.v
  /\ absence.from = payload.from.v
  /\ absence.to = payload.to.v
  /\ absence.reason = IF IsString(payload.reason) THEN payload.reason.v ELSE "other"
  /\ IF Filled(payload.id)
     THEN absence.id = Trim(payload.id.v)
     ELSE absence.id \in {randomUUID(m) : m \in 1..uuidCount}

\* The absences of employee `id`, in order.
AbsencesOf(doc, id) == SelectSeq(doc.absences, LAMBDA a : a.employeeId = id)

\* Two addAbsence calls for the same employee, the i-th and the j-th task,
\* have resolved and nothing submitted after the second has started.
TwoAbsencesAdded(i, j) ==
  /\ i < j
  /\ tasks[i].pc = "resolved"
  /\ tasks[j].pc = "resolved"
  /\ tasks[i].op.method = "addAbsence"
  /\ tasks[j].op.method = "addAbsence"
  /\ tasks[i].op.absence.employeeId = tasks[j].op.absence.employeeId
  /\ \A k \in TaskIds : k > j => tasks[k].pc = "queued"

\* C16: after two addAbsence calls for the same employee have resolved, the
\* Document holds exactly one absence of that employee, the one of the call
\* submitted second; and every addAbsence that goes on to persist leaves the
\* absences of the other employees, the employees and the branding as they
\* were.
C16_SecondAbsenceSupersedes ==
  /\ [](\A i, j \in TaskIds :
          TwoAbsencesAdded(i, j) =>
            LET own == AbsencesOf(getState, tasks[j].op.absence.employeeId.v)
            IN Len(own) = 1 /\ IsAbsenceOf(own[1], tasks[j].op.absence))
  /\ [][\A i \in TaskIds :
          (/\ Starts(i)
           /\ tasks[i].op.method = "addAbsence"
           /\ tasks'[i].pc = "mkdir")
          => LET id == tasks[i].op.absence.employeeId.v
             IN /\ SelectSeq(state'.absences, LAMBDA a : a.employeeId # id)
                     = SelectSeq(state.absences, LAMBDA a : a.employeeId # id)
                /\ state'.employees = state.employees
                /\ state'.branding = state.branding]_vars

\* Two different addAbsence calls for e1, the second submitted while the
\* first had not settled, have resolved, and the absence is the second's.
C16_Witness ==
  /\ Len(tasks) = 2
  /\ TwoAbsencesAdded(1, 2)
  /\ overlap
  /\ tasks[1].op.absence.id = Str("a1")
  /\ tasks[2].op.absence.id = Absent
  /\ Len(AbsencesOf(state, "e1")) = 1
  /\ AbsencesOf(state, "e1")[1].reason = "other"
  /\ AbsencesOf(state, "e1")[1].id = randomUUID(uuidCount)

\* C20: in the step in which a task starts, every task submitted before it
\* has settled (its persist has finished or it has failed) and no task
\* submitted after it has left the queue: tasks start in submission order.
C20_StartsInSubmissionOrder ==
  [][\A i \in TaskIds :
       Starts(i) =>
         \A j \in TaskIds :
           /\ j < i => Settled(tasks[j]) /\ tasks[j].ran
           /\ j > i => tasks[j].pc = "queued" /\ ~tasks[j].ran]_vars

\* The second task, submitted while the first had not settled, is in its
\* persist after the first one's write failed.
C20_Witness ==
  /\ Len(tasks) = 2
  /\ overlap
  /\ tasks[1].pc = "rejected"
  /\ tasks[1].error = "ENOSPC"
  /\ tasks[2].pc = "write"

\* ------------------------------------------------------ claims on init

\* init() is under way on a backing file that exists and cannot be parsed
\* (the file is not written before init's own writeFile returns).
InitOnCorruptFile ==
  /\ phase \in {"new", "initMkdir", "initWrite"}
  /\ file.kind = "garbage"

\* C18: init() on a corrupt backing file takes the default Document and does
\* not fail, whatever its steps do.
C18_CorruptFileInitNeverFails ==
  [][InitOnCorruptFile =>
       /\ state' = deepClone(DEFAULT_STATE)
       /\ phase' # "exited"]_vars

\* C17: the Document holds at most one absence per employeeId.
C17_OneAbsencePerEmployee ==
  phase = "ready" =>
    \A i, j \in 1..Len(state.absences) :
      state.absences[i].employeeId = state.absences[j].employeeId => i = j

\* The id a raw list entry asks for: its trimmed id, "" when it has none.
RawId(employee) ==
  IF employee.t = "object" /\ Filled(employee.id) THEN Trim(employee.id.v) ELSE ""

\* The name normalisation gives a raw list entry.
RawName(employee) ==
  IF employee.t = "object" /\ Filled(employee.name)
  THEN Trim(employee.name.v) ELSE "Ukendt medarbejder"

\* init has just normalised the employee list of the backing file into
\* this.state: no task has been handed to the store since.
JustNormalised ==
  /\ phase = "ready"
  /\ tasks = <<>>
  /\ file.kind = "json"
  /\ file.value.employees.t = "array"
  /\ file.value.employees.items # <<>>

\* The identifiers drawn from crypto.randomUUID so far.
Drawn == {randomUUID(m) : m \in 1..uuidCount}

\* C19: the normalised employee list has as many employees as the raw list,
\* in the same order, with pairwise distinct ids; the first entry that asks
\* for an id keeps it, and every later entry that asks for the same id has a
\* drawn identifier that no entry of the raw list asks for and no earlier
\* employee of the list has.
C19_DuplicateIdsRegenerated ==
  JustNormalised =>
    LET raw == file.value.employees.items
        employees == state.employees
    IN /\ Len(employees) = Len(raw)
       /\ \A i, j \in 1..Len(employees) : employees[i].id = employees[j].id => i = j
       /\ \A i \in 1..Len(raw) :
            /\ employees[i].name = RawName(raw[i])
            /\ employees[i].id # ""
            /\ (RawId(raw[i]) # "" /\ \A j \in 1..(i - 1) : RawId(raw[j]) # RawId(raw[i]))
               => employees[i].id = RawId(raw[i])
            /\ (RawId(raw[i]) # "" /\ \E j \in 1..(i - 1) : RawId(raw[j]) = RawId(raw[i]))
               => /\ employees[i].id \in Drawn
                  /\ employees[i].id \notin {RawId(raw[j]) : j \in 1..Len(raw)}
                  /\ employees[i].id \notin {employees[j].id : j \in 1..(i - 1)}

\* init has normalised a list of three entries that all ask for the id e1:
\* the first is e1, the other two have the two identifiers drawn.
C19_Witness ==
  /\ JustNormalised
  /\ restarts = 0
  /\ Len(file.value.employees.items) = 3
  /\ \A i \in 1..3 : RawId(file.value.employees.items[i]) = "e1"
  /\ state.employees[1].id = "e1"
  /\ state.employees[2].id = randomUUID(1)
  /\ state.employees[3].id = randomUUID(2)
  /\ state.employees[3].name = "Cy"

\* ------------------------------------------------------ claims on updateEmployee

\* The employee `now` is `before` changed by nothing but the keys that the
\* partial `updates` has: the id stays, a key the partial does not have keeps
\* its value, and isCheckedIn changes only to a boolean the partial holds.
OnlyUpdated(before, now, updates) ==
  /\ now.id = before.id
  /\ updates.name.t = "absent" => now.name = before.name
  /\ updates.department.t = "absent" => now.department = before.department
  /\ updates.role.t = "absent" => now.role = before.role
  /\ updates.photo.t = "absent" => now.photo = before.photo
  /\ now.isCheckedIn = IF updates.isCheckedIn.t = "boolean"
                       THEN updates.isCheckedIn.v = "true"
                       ELSE before.isCheckedIn

\* The Document `now` is `before` with only the employee `id` updated.
FrameKept(before, now, id, updates) ==
  /\ Len(now.employees) = Len(before.employees)
  /\ \A k \in 1..Len(before.employees) :
       IF before.employees[k].id = id
       THEN OnlyUpdated(before.employees[k], now.employees[k], updates)
       ELSE now.employees[k] = before.employees[k]
  /\ now.absences = before.absences
  /\ now.branding = before.branding

\* C21: an updateEmployee(id, partial) that finds the employee goes on to
\* persist, and resolves, with a Document in which only that employee is
\* changed: it keeps its id, the fields that the partial does not have, and
\* its isCheckedIn unless the partial holds a boolean; the other employees,
\* the absences and the branding are as before.
C21_UpdateChangesOnlyItsEmployee ==
  [][\A i \in TaskIds :
       tasks[i].op.method = "updateEmployee" =>
         /\ (Starts(i) /\ tasks[i].op.id \in EmployeeIds(state.employees))
            => /\ tasks'[i].pc = "mkdir"
               /\ FrameKept(state, state', tasks[i].op.id, tasks[i].op.employee)
         /\ Resolves(i)
            => FrameKept(tasks[i].before, deepClone(state'), tasks[i].op.id,
                         tasks[i].op.employee)]_vars

\* updateEmployee('e1', {id: 'e2', name: 'Bo', department: undefined,
\* isCheckedIn: 'yes'}) has resolved on the Document loaded from the file
\* that held e1: e1 is still e1, not checked in, with its role, its new name,
\* and its absence.
C21_Witness ==
  /\ restarts = 0
  /\ Len(tasks) = 1
  /\ tasks[1].pc = "resolved"
  /\ tasks[1].op.method = "updateEmployee"
  /\ tasks[1].op.employee.id = Str("e2")
  /\ state.employees = << Employee("e1", "Bo", "Øvrige", "Dev", "", FALSE) >>
  /\ Len(state.absences) = 1
  /\ state.absences[1].employeeId = "e1"
  /\ file = FileJSON(JSONstringify(state))

====
